---- MODULE Spec2Model ----
(***************************************************************************)
(* Model of the fuzzy-logic operator library src/src/lib.rs.               *)
(*                                                                         *)
(* The library is nine pure functions over Truth = f32 returning           *)
(* Option<Truth>.  f32 is modelled by a binary floating-point format of    *)
(* the IEEE 754 family with Prec significand bits and largest exponent     *)
(* EMax (f32 itself is Prec = 24, EMax = 127): signed zeros, subnormals,   *)
(* infinities, one NaN, and round-to-nearest-even after every operation.   *)
(* A finite value is kept as a sign and a magnitude counted in units of    *)
(* the smallest subnormal, so every operation is exact integer arithmetic  *)
(* followed by one rounding, as the hardware does it.                      *)
(***************************************************************************)
EXTENDS Integers, FiniteSets, Sequences

VARIABLES args, op, result

vars == <<args, op, result>>

\* Significand bits of the modelled format (f32: 24).
Prec == 3

\* Largest exponent of the modelled format (f32: 127); the smallest is 1 - EMax.
EMax == 2

EMin == 1 - EMax

\* The smallest subnormal is 2^(-Scale); magnitudes count multiples of it.
Scale == (Prec - 1) - EMin

\* Number of binades above the first one.
MaxShift == EMax - EMin

\* Magnitude of the largest finite value.
MaxMag == (2^Prec - 1) * 2^MaxShift

(***************************************************************************)
(* The values of the type Truth.                                           *)
(***************************************************************************)
Fin(s, m) == [k |-> "fin", s |-> s, m |-> m]

Inf(s) == [k |-> "inf", s |-> s, m |-> 0]

NaN == [k |-> "nan", s |-> 0, m |-> 0]

\* Magnitudes a finite value can have: every multiple of the unit below
\* 2^Prec (subnormals and the first binade), then Prec-bit significands
\* shifted into the higher binades.
Mags == (0 .. (2^Prec - 1)) \cup
        { c * 2^j : c \in (2^(Prec - 1)) .. (2^Prec - 1), j \in 1 .. MaxShift }

Finite == { Fin(s, m) : s \in {0, 1}, m \in Mags }

Truth == Finite \cup { Inf(0), Inf(1), NaN }

One == Fin(0, 2^Scale)

Two == Fin(0, 2^(Scale + 1))

Zero == Fin(0, 0)

is_nan(x) == x.k = "nan"

is_infinite(x) == x.k = "inf"

is_finite(x) == x.k = "fin"

Xor(s, t) == (s + t) % 2

Neg(x) == IF is_nan(x) THEN NaN ELSE [x EXCEPT !.s = 1 - x.s]

\* The signed magnitude of a finite value, in units.
Val(x) == IF x.s = 1 THEN 0 - x.m ELSE x.m

\* n / d rounded to the nearest integer, ties to the even one.
RoundEven(n, d) ==
    LET q == n \div d
        r == n % d
    IN  IF 2 * r > d THEN q + 1
        ELSE IF 2 * r < d THEN q
        ELSE IF q % 2 = 0 THEN q ELSE q + 1

\* The binade of n / d: the least shift j with n / d < 2^(Prec + j).
RECURSIVE Shift(_, _, _)
Shift(n, d, j) == IF n < d * 2^(Prec + j) THEN j ELSE Shift(n, d, j + 1)

\* The exact magnitude n / d (in units) rounded to the format; a rounded
\* magnitude above the largest finite one overflows to infinity.
Round(s, n, d) ==
    LET j == Shift(n, d, 0)
        m == RoundEven(n, d * 2^j) * 2^j
    IN  IF m > MaxMag THEN Inf(s) ELSE Fin(s, m)

\* x + y
FAdd(x, y) ==
    IF is_nan(x) \/ is_nan(y) THEN NaN
    ELSE IF is_infinite(x) /\ is_infinite(y) THEN (IF x.s = y.s THEN x ELSE NaN)
    ELSE IF is_infinite(x) THEN x
    ELSE IF is_infinite(y) THEN y
    ELSE LET v == Val(x) + Val(y)
         IN  IF v = 0 THEN Fin(IF x.s = y.s THEN x.s ELSE 0, 0)
             ELSE IF v < 0 THEN Round(1, 0 - v, 1)
             ELSE Round(0, v, 1)

\* x - y
FSub(x, y) == FAdd(x, Neg(y))

\* x * y
FMul(x, y) ==
    IF is_nan(x) \/ is_nan(y) THEN NaN
    ELSE IF is_infinite(x) \/ is_infinite(y)
         THEN (IF (is_finite(x) /\ x.m = 0) \/ (is_finite(y) /\ y.m = 0)
               THEN NaN ELSE Inf(Xor(x.s, y.s)))
    ELSE Round(Xor(x.s, y.s), x.m * y.m, 2^Scale)

\* x / y
FDiv(x, y) ==
    IF is_nan(x) \/ is_nan(y) THEN NaN
    ELSE IF is_infinite(x) THEN (IF is_infinite(y) THEN NaN ELSE Inf(Xor(x.s, y.s)))
    ELSE IF is_infinite(y) THEN Fin(Xor(x.s, y.s), 0)
    ELSE IF y.m = 0 THEN (IF x.m = 0 THEN NaN ELSE Inf(Xor(x.s, y.s)))
    ELSE Round(Xor(x.s, y.s), x.m * 2^Scale, y.m)

\* x > y (false when either side is NaN; the two zeros compare equal)
FGt(x, y) ==
    IF is_nan(x) \/ is_nan(y) THEN FALSE
    ELSE IF is_infinite(x) THEN x.s = 0 /\ ~(is_infinite(y) /\ y.s = 0)
    ELSE IF is_infinite(y) THEN y.s = 1
    ELSE Val(x) > Val(y)

(***************************************************************************)
(* Option<Truth>                                                           *)
(***************************************************************************)
None == << >>

Some(x) == << x >>

IsSome(r) == Len(r) = 1

Unwrap(r) == r[1]

(***************************************************************************)
(* mod zadeh                                                               *)
(***************************************************************************)
zadeh_min(x, y) ==
    IF is_nan(x) \/ is_nan(y) THEN None
    ELSE IF is_infinite(x) \/ is_infinite(y) THEN None
    ELSE IF FGt(x, y) THEN Some(y) ELSE Some(x)

\* Mutant: the alias delegates to the union instead of the intersection.
zadeh_or_as_max(x, y) ==
    IF is_nan(x) \/ is_nan(y) THEN None
    ELSE IF is_infinite(x) \/ is_infinite(y) THEN None
    ELSE IF FGt(x, y) THEN Some(x) ELSE Some(y)

zadeh_or(x, y) == zadeh_min(x, y)

\* Mutant: the branches of min pasted into max.
zadeh_max_swapped(x, y) ==
    IF is_nan(x) \/ is_nan(y) THEN None
    ELSE IF is_infinite(x) \/ is_infinite(y) THEN None
    ELSE IF FGt(x, y) THEN Some(y) ELSE Some(x)

zadeh_max(x, y) ==
    IF is_nan(x) \/ is_nan(y) THEN None
    ELSE IF is_infinite(x) \/ is_infinite(y) THEN None
    ELSE IF FGt(x, y) THEN Some(x) ELSE Some(y)

zadeh_and(x, y) == zadeh_max(x, y)

(***************************************************************************)
(* mod einstein                                                            *)
(***************************************************************************)
\* Mutant: a parenthesis lost in the denominator, (1 + (1-a)) * (1-b).
einstein_product_misgrouped(x, y) ==
    IF is_nan(x) \/ is_nan(y) THEN None
    ELSE IF is_infinite(x) \/ is_infinite(y) THEN None
    ELSE LET r == FDiv(FMul(x, y), FMul(FAdd(One, FSub(One, x)), FSub(One, y)))
         IN  IF is_nan(r) \/ is_infinite(r) THEN None ELSE Some(r)

\* Mutant: a mistyped operand in the denominator, (1-a) * (1-a).
einstein_product_asymmetric(x, y) ==
    IF is_nan(x) \/ is_nan(y) THEN None
    ELSE IF is_infinite(x) \/ is_infinite(y) THEN None
    ELSE LET r == FDiv(FMul(x, y), FAdd(One, FMul(FSub(One, x), FSub(One, x))))
         IN  IF is_nan(r) \/ is_infinite(r) THEN None ELSE Some(r)

einstein_product(x, y) ==
    IF is_nan(x) \/ is_nan(y) THEN None
    ELSE IF is_infinite(x) \/ is_infinite(y) THEN None
    ELSE LET r == FDiv(FMul(x, y), FAdd(One, FMul(FSub(One, x), FSub(One, y))))
         IN  IF is_nan(r) \/ is_infinite(r) THEN None ELSE Some(r)

einstein_or(x, y) == einstein_product(x, y)

\* Mutant: the numerator of the product pasted into the sum, a * b.
einstein_sum_product_numerator(x, y) ==
    IF is_nan(x) \/ is_nan(y) THEN None
    ELSE IF is_infinite(x) \/ is_infinite(y) THEN None
    ELSE LET r == FDiv(FMul(x, y), FAdd(One, FMul(x, y)))
         IN  IF is_nan(r) \/ is_infinite(r) THEN None ELSE Some(r)

\* Mutant: the algebraic sum without its normalising denominator.
einstein_sum_unnormalised(x, y) ==
    IF is_nan(x) \/ is_nan(y) THEN None
    ELSE IF is_infinite(x) \/ is_infinite(y) THEN None
    ELSE LET r == FAdd(x, y)
         IN  IF is_nan(r) \/ is_infinite(r) THEN None ELSE Some(r)

einstein_sum(x, y) ==
    IF is_nan(x) \/ is_nan(y) THEN None
    ELSE IF is_infinite(x) \/ is_infinite(y) THEN None
    ELSE LET r == FDiv(FAdd(x, y), FAdd(One, FMul(x, y)))
         IN  IF is_nan(r) \/ is_infinite(r) THEN None ELSE Some(r)

einstein_and(x, y) == einstein_sum(x, y)

(***************************************************************************)
(* mod werner                                                              *)
(***************************************************************************)
\* Mutant: the result is returned without the NaN / infinity test.
werner_weighted_min_unchecked(w, x, y) ==
    LET z == zadeh_min(x, y)
    IN  IF IsSome(z)
        THEN Some(FDiv(FAdd(FMul(w, Unwrap(z)),
                            FMul(FSub(One, w), FAdd(x, y))), Two))
        ELSE None

\* Mutant: the weight is clamped to [0, 1] before use.
werner_weighted_min_clamped(w, x, y) ==
    LET z == zadeh_min(x, y)
        c == IF FGt(w, One) THEN One ELSE IF FGt(Zero, w) THEN Zero ELSE w
    IN  IF IsSome(z)
        THEN LET r == FDiv(FAdd(FMul(c, Unwrap(z)),
                                FMul(FSub(One, c), FAdd(x, y))), Two)
             IN  IF is_nan(r) \/ is_infinite(r) THEN None ELSE Some(r)
        ELSE None

\* Mutant: a failed zadeh::min is answered with a default truth of zero.
werner_weighted_min_default(w, x, y) ==
    LET z == zadeh_min(x, y)
    IN  IF IsSome(z)
        THEN LET r == FDiv(FAdd(FMul(w, Unwrap(z)),
                                FMul(FSub(One, w), FAdd(x, y))), Two)
             IN  IF is_nan(r) \/ is_infinite(r) THEN None ELSE Some(r)
        ELSE Some(Zero)

werner_weighted_min(w, x, y) ==
    LET z == zadeh_min(x, y)
    IN  IF IsSome(z)
        THEN LET r == FDiv(FAdd(FMul(w, Unwrap(z)),
                                FMul(FSub(One, w), FAdd(x, y))), Two)
             IN  IF is_nan(r) \/ is_infinite(r) THEN None ELSE Some(r)
        ELSE None

werner_fuzzy_and(w, x, y) == werner_weighted_min(w, x, y)

(***************************************************************************)
(* A caller: it holds the argument list of one call, (a, b) for the Zadeh  *)
(* and Einstein operators and (weight, a, b) for the Werner operators, and *)
(* calls one operator of that arity on it.                                 *)
(***************************************************************************)
weight == args[1]

a == args[Len(args) - 1]

b == args[Len(args)]

Call(arity, name, r) ==
    /\ op = "idle"
    /\ Len(args) = arity
    /\ op' = name
    /\ result' = r
    /\ UNCHANGED args

CallZadehMin == Call(2, "zadeh::min", zadeh_min(a, b))

CallZadehOr == Call(2, "zadeh::or", zadeh_or(a, b))

CallZadehMax == Call(2, "zadeh::max", zadeh_max(a, b))

CallZadehAnd == Call(2, "zadeh::and", zadeh_and(a, b))

CallEinsteinProduct == Call(2, "einstein::product", einstein_product(a, b))

CallEinsteinOr == Call(2, "einstein::or", einstein_or(a, b))

CallEinsteinSum == Call(2, "einstein::sum", einstein_sum(a, b))

CallEinsteinAnd == Call(2, "einstein::and", einstein_and(a, b))

CallWernerWeightedMin ==
    Call(3, "werner::weighted_min", werner_weighted_min(weight, a, b))

CallWernerFuzzyAnd ==
    Call(3, "werner::fuzzy_and", werner_fuzzy_and(weight, a, b))

Init ==
    /\ args \in (Truth \X Truth) \cup (Truth \X Truth \X Truth)
    /\ op = "idle"
    /\ result = None

Next ==
    \/ CallZadehMin
    \/ CallZadehOr
    \/ CallZadehMax
    \/ CallZadehAnd
    \/ CallEinsteinProduct
    \/ CallEinsteinOr
    \/ CallEinsteinSum
    \/ CallEinsteinAnd
    \/ CallWernerWeightedMin
    \/ CallWernerFuzzyAnd

Spec == Init /\ [][Next]_vars

(***************************************************************************)
(* Vocabulary of the properties.                                           *)
(***************************************************************************)
NonFinite(x) == is_nan(x) \/ is_infinite(x)

Called(names) == op \in names

ZadehOps == {"zadeh::min", "zadeh::or", "zadeh::max", "zadeh::and"}

EinsteinOps ==
    {"einstein::product", "einstein::or", "einstein::sum", "einstein::and"}

WernerOps == {"werner::weighted_min", "werner::fuzzy_and"}

Half == Fin(0, 2^(Scale - 1))

\* x lies in the truth range [0, 1].
InUnit(x) == is_finite(x) /\ 0 <= Val(x) /\ Val(x) <= One.m

\* The mathematical minimum and maximum of two finite values, in units.
MathMin(x, y) == IF Val(x) <= Val(y) THEN Val(x) ELSE Val(y)

MathMax(x, y) == IF Val(x) <= Val(y) THEN Val(y) ELSE Val(x)

\* x == y on f32 (false when either side is NaN; the two zeros compare equal)
FEq(x, y) ==
    IF is_nan(x) \/ is_nan(y) THEN FALSE
    ELSE IF is_finite(x) /\ is_finite(y) THEN Val(x) = Val(y)
    ELSE x = y

\* Option<f32> equality as Rust's == decides it.
OptEq(r, q) ==
    \/ r = None /\ q = None
    \/ IsSome(r) /\ IsSome(q) /\ FEq(Unwrap(r), Unwrap(q))

\* A computed value as the operators hand it out: absent unless finite.
Checked(v) == IF is_finite(v) THEN Some(v) ELSE None

\* The documented formulas, evaluated in the format.
ProductDenominator(x, y) == FAdd(One, FMul(FSub(One, x), FSub(One, y)))

ProductValue(x, y) == FDiv(FMul(x, y), ProductDenominator(x, y))

SumDenominator(x, y) == FAdd(One, FMul(x, y))

SumValue(x, y) == FDiv(FAdd(x, y), SumDenominator(x, y))

WernerValue(w, x, y) ==
    LET m == IF Val(x) <= Val(y) THEN x ELSE y
    IN  FDiv(FAdd(FMul(w, m), FMul(FSub(One, w), FAdd(x, y))), Two)

(***************************************************************************)
(* C1.  Whenever an argument of a call is NaN, +infinity or -infinity, the *)
(* operator returns None; for the Werner operators this includes the       *)
(* weight, which the code never tests directly.                            *)
(***************************************************************************)
C1_NonFiniteArgumentGivesNone ==
    /\ Called(ZadehOps \cup EinsteinOps) /\ (NonFinite(a) \/ NonFinite(b))
       => result = None
    /\ Called(WernerOps) /\ (NonFinite(weight) \/ NonFinite(a) \/ NonFinite(b))
       => result = None

\* weighted_min was called with finite a, b and an infinite weight.
C1_Witness ==
    /\ op = "werner::weighted_min"
    /\ is_finite(a) /\ is_finite(b) /\ is_infinite(weight)
    /\ result = None

(***************************************************************************)
(* C2.  On finite a and b, zadeh::min returns Some of the mathematical     *)
(* minimum and zadeh::max Some of the mathematical maximum; the value is   *)
(* one of the inputs (min: b when a > b, else a; max: a when a > b, else   *)
(* b) and the result is never None.                                        *)
(***************************************************************************)
C2_MinMaxAreMathematical ==
    /\ op = "zadeh::min" /\ is_finite(a) /\ is_finite(b)
       => /\ IsSome(result)
          /\ Val(Unwrap(result)) = MathMin(a, b)
          /\ Unwrap(result) = (IF Val(a) > Val(b) THEN b ELSE a)
    /\ op = "zadeh::max" /\ is_finite(a) /\ is_finite(b)
       => /\ IsSome(result)
          /\ Val(Unwrap(result)) = MathMax(a, b)
          /\ Unwrap(result) = (IF Val(a) > Val(b) THEN a ELSE b)

\* max was called on finite a < b and returned b.
C2_Witness ==
    /\ op = "zadeh::max"
    /\ is_finite(a) /\ is_finite(b) /\ Val(a) < Val(b)
    /\ result = Some(b)

(***************************************************************************)
(* C3.  On finite a and b, einstein::product returns                       *)
(* (a*b) / (1 + (1-a)*(1-b)) and einstein::sum returns (a+b) / (1 + a*b)   *)
(* whenever that value is finite (product(0.5, 0.5) = 0.2 and              *)
(* sum(0.5, 0.5) = 0.8, to the nearest value of the format), and None      *)
(* exactly when the value is NaN or infinite.                              *)
(***************************************************************************)
ProductDenominatorZero(x, y) == FEq(FMul(FSub(One, x), FSub(One, y)), Neg(One))

SumDenominatorZero(x, y) == FEq(FMul(x, y), Neg(One))

\* Some step of the formula left the finite range although its operands
\* were finite.
ProductOverflows(x, y) ==
    \/ is_infinite(FMul(x, y))
    \/ is_infinite(FSub(One, x))
    \/ is_infinite(FSub(One, y))
    \/ is_infinite(ProductDenominator(x, y))
    \/ is_infinite(ProductValue(x, y))

SumOverflows(x, y) ==
    \/ is_infinite(FAdd(x, y))
    \/ is_infinite(FMul(x, y))
    \/ is_infinite(SumDenominator(x, y))
    \/ is_infinite(SumValue(x, y))

C3_ValueOfFormula ==
    /\ op = "einstein::product" /\ is_finite(a) /\ is_finite(b)
       => /\ result = Checked(ProductValue(a, b))
          /\ a = Half /\ b = Half => result = Some(Round(0, 2^Scale, 5))
    /\ op = "einstein::sum" /\ is_finite(a) /\ is_finite(b)
       => /\ result = Checked(SumValue(a, b))
          /\ a = Half /\ b = Half => result = Some(Round(0, 4 * 2^Scale, 5))

\* The claim as written: None exactly when the denominator is zero.
C3_NoneIffDenominatorZero ==
    /\ C3_ValueOfFormula
    /\ op = "einstein::product" /\ is_finite(a) /\ is_finite(b)
       => (result = None <=> ProductDenominatorZero(a, b))
    /\ op = "einstein::sum" /\ is_finite(a) /\ is_finite(b)
       => (result = None <=> SumDenominatorZero(a, b))

\* As amended: a zero denominator gives None, and None comes only from a
\* zero denominator or from a step of the formula overflowing.
C3_NoneIffValueNotFinite ==
    /\ C3_ValueOfFormula
    /\ op = "einstein::product" /\ is_finite(a) /\ is_finite(b)
       => /\ ProductDenominatorZero(a, b) => result = None
          /\ result = None
             => ProductDenominatorZero(a, b) \/ ProductOverflows(a, b)
    /\ op = "einstein::sum" /\ is_finite(a) /\ is_finite(b)
       => /\ SumDenominatorZero(a, b) => result = None
          /\ result = None => SumDenominatorZero(a, b) \/ SumOverflows(a, b)

\* sum was called on finite a, b with a*b = -1 and returned None.
C3_Witness ==
    /\ op = "einstein::sum"
    /\ is_finite(a) /\ is_finite(b) /\ SumDenominatorZero(a, b)
    /\ result = None

(***************************************************************************)
(* C4.  On finite weight, a and b, werner::weighted_min returns            *)
(* (weight*m + (1-weight)*(a+b)) / 2 with m the minimum of a and b, as     *)
(* Some value whenever that result is finite; a weight outside [0, 1] is   *)
(* used as it is.                                                          *)
(***************************************************************************)
C4_WeightedMinFormula ==
    op = "werner::weighted_min"
    /\ is_finite(weight) /\ is_finite(a) /\ is_finite(b)
    => result = Checked(WernerValue(weight, a, b))

\* weighted_min(2, 0.5, 1) = (2*0.5 + (1-2)*1.5) / 2 = -0.25.
C4_Witness ==
    /\ op = "werner::weighted_min"
    /\ weight = Two /\ a = Half /\ b = One
    /\ result = Some(Fin(1, 2^(Scale - 2)))

(***************************************************************************)
(* C5.  On finite a, b and a weight in [0, 1], werner::weighted_min is a   *)
(* blend of min(a, b) and the mean (a+b)/2: it is min(a, b) at weight 1    *)
(* and (a+b)/2 at weight 0, and in between for the weights in between.     *)
(* Stated at the two ends of the blend, where a blend of the two needs no  *)
(* rounding, and where a + b does not overflow, so that neither rounding   *)
(* nor overflow is what the statement turns on.                            *)
(***************************************************************************)
Mean(x, y) == FDiv(FAdd(x, y), Two)

C5_BlendOfMinAndMean ==
    op = "werner::weighted_min"
    /\ InUnit(weight) /\ is_finite(a) /\ is_finite(b) /\ is_finite(FAdd(a, b))
    => /\ IsSome(result)
       /\ FEq(weight, One) => Val(Unwrap(result)) = MathMin(a, b)
       /\ FEq(weight, Zero) => FEq(Unwrap(result), Mean(a, b))

(***************************************************************************)
(* C6.  Whenever zadeh::min(a, b) is None, werner::weighted_min(w, a, b)   *)
(* is None, whatever the weight w (finite, NaN or infinite).               *)
(***************************************************************************)
C6_WernerFailsWithZadehMin ==
    Called(WernerOps) /\ zadeh_min(a, b) = None => result = None

\* weighted_min was called with a finite weight and a NaN a.
C6_Witness ==
    /\ op = "werner::weighted_min"
    /\ is_finite(weight) /\ is_nan(a) /\ is_finite(b)
    /\ result = None

(***************************************************************************)
(* C7.  zadeh::min, zadeh::max, einstein::product and einstein::sum are    *)
(* commutative on finite arguments: op(a, b) and op(b, a) are both None or *)
(* both Some with equal values.                                            *)
(***************************************************************************)
C7_Commutative ==
    is_finite(a) /\ is_finite(b)
    => /\ op = "zadeh::min" => OptEq(result, zadeh_min(b, a))
       /\ op = "zadeh::max" => OptEq(result, zadeh_max(b, a))
       /\ op = "einstein::product" => OptEq(result, einstein_product(b, a))
       /\ op = "einstein::sum" => OptEq(result, einstein_sum(b, a))

\* product was called on two different finite values and returned a value.
C7_Witness ==
    /\ op = "einstein::product"
    /\ is_finite(a) /\ is_finite(b) /\ Val(a) # Val(b)
    /\ IsSome(result)

(***************************************************************************)
(* C8.  einstein::sum(0, b) is Some(b) for every finite b, and             *)
(* einstein::product(a, 1) is Some finite value for every finite a in      *)
(* [0, 1].                                                                 *)
(***************************************************************************)
C8_EinsteinBoundaries ==
    /\ op = "einstein::sum" /\ FEq(a, Zero) /\ is_finite(b)
       => IsSome(result) /\ FEq(Unwrap(result), b)
    /\ op = "einstein::product" /\ InUnit(a) /\ b = One
       => IsSome(result) /\ is_finite(Unwrap(result))

\* sum was called with a = 0 and a finite non-zero b and returned b.
C8_Witness ==
    /\ op = "einstein::sum"
    /\ a = Zero /\ is_finite(b) /\ b.m # 0
    /\ result = Some(b)

(***************************************************************************)
(* C9.  Each alias returns exactly what its canonical operator returns on  *)
(* the same arguments, non-finite ones included: zadeh::or = zadeh::min,   *)
(* zadeh::and = zadeh::max, einstein::or = einstein::product,              *)
(* einstein::and = einstein::sum, werner::fuzzy_and = werner::weighted_min.*)
(***************************************************************************)
C9_AliasesDelegate ==
    /\ op = "zadeh::or" => result = zadeh_min(a, b)
    /\ op = "zadeh::and" => result = zadeh_max(a, b)
    /\ op = "einstein::or" => result = einstein_product(a, b)
    /\ op = "einstein::and" => result = einstein_sum(a, b)
    /\ op = "werner::fuzzy_and" => result = werner_weighted_min(weight, a, b)

\* zadeh::or was called on finite a > b and returned b, as min does.
C9_Witness ==
    /\ op = "zadeh::or"
    /\ is_finite(a) /\ is_finite(b) /\ Val(a) > Val(b)
    /\ result = Some(b)

(***************************************************************************)
(* C10.  On a and b in [0, 1] (and a weight in [0, 1] for the Werner       *)
(* operators) every operator returns Some value, and that value lies in    *)
(* [0, 1].                                                                 *)
(***************************************************************************)
C10_ClosedOnUnitInterval ==
    /\ op # "idle"
    /\ InUnit(a) /\ InUnit(b)
    /\ Called(WernerOps) => InUnit(weight)
    => IsSome(result) /\ InUnit(Unwrap(result))

\* sum(1, 1) = 2 / 2 = 1 stays in range.
C10_Witness ==
    /\ op = "einstein::sum"
    /\ a = One /\ b = One
    /\ result = Some(One)

====
